---- MODULE Spec2Model ----
(***************************************************************************)
(* Model of elysia-schema-gen: the class parser / type resolver            *)
(* (src/src/parser/parser.ts) and the Elysia TypeBox generator             *)
(* (src/unnamed/part_000).                                                 *)
(*                                                                         *)
(* The ts-morph type-introspection engine is an external collaborator: a   *)
(* type handle is modelled as the record of the answers it gives to the    *)
(* queries the resolver makes (isString, getText, getUnionTypes, ...).     *)
(* Text is modelled by TLA+ strings, concatenated as the code does.        *)
(***************************************************************************)
EXTENDS Integers, Sequences, FiniteSets, TLC

VARIABLES pc, request, parsed, error, output, typeTable, stack, returned

vars == <<pc, request, parsed, error, output, typeTable, stack, returned>>

(***************************************************************************)
(* Bounds of the checked input space.                                      *)
(***************************************************************************)
\* nesting depth of the type expressions handed to the resolver
MaxDepth == 2
\* length of union member lists and object member lists
MaxMembers == 2
\* number of properties of the enumerated classes
MaxProps == 2
\* number of types of a provider type graph
MaxTypes == 3
\* number of nested calls the engine's call stack holds
MaxStack == 5

(***************************************************************************)
(* JavaScript values carried by literal types (getLiteralValue()).         *)
(* typeof is the tag the resolver tests; exactly one payload is used.      *)
(***************************************************************************)
JsString(s) == [typeof |-> "string", s |-> s, n |-> 0, b |-> FALSE]
JsNumber(n) == [typeof |-> "number", s |-> "", n |-> n, b |-> FALSE]
JsBoolean(b) == [typeof |-> "boolean", s |-> "", n |-> 0, b |-> b]
\* a bigint literal: getLiteralValue() is a PseudoBigInt object
JsBigInt(n) == [typeof |-> "object", s |-> "", n |-> n, b |-> FALSE]
JsUndefined == [typeof |-> "undefined", s |-> "", n |-> 0, b |-> FALSE]

(***************************************************************************)
(* Type handles: the provider's answers for one type expression.           *)
(***************************************************************************)
NoKind(text) ==
    [text |-> text,
     isString |-> FALSE, isNumber |-> FALSE, isBoolean |-> FALSE,
     isArray |-> FALSE, elem |-> <<>>,
     isUnion |-> FALSE, unionTypes |-> <<>>,
     isLiteral |-> FALSE, literalValue |-> JsUndefined,
     isObject |-> FALSE, properties |-> <<>>]

\* a member symbol of an object type: decl is "typed" (a declaration with
\* getType), "untyped" (a declaration without getType) or "none"
Member(name, type, optional) ==
    [name |-> name, decl |-> "typed", type |-> <<type>>, isOptional |-> optional]
BrokenMember(name, decl) ==
    [name |-> name, decl |-> decl, type |-> <<>>, isOptional |-> FALSE]

StringT == [NoKind("string") EXCEPT !.isString = TRUE]
NumberT == [NoKind("number") EXCEPT !.isNumber = TRUE]
StringLit(s) ==
    [NoKind("\"" \o s \o "\"") EXCEPT !.isLiteral = TRUE, !.literalValue = JsString(s)]
NumberLit(n) ==
    [NoKind(ToString(n)) EXCEPT !.isLiteral = TRUE, !.literalValue = JsNumber(n)]
\* ts-morph reports true/false as literals whose compiler value is undefined
TrueLit == [NoKind("true") EXCEPT !.isLiteral = TRUE]
FalseLit == [NoKind("false") EXCEPT !.isLiteral = TRUE]
\* boolean is the union false | true and says so
BooleanT ==
    [NoKind("boolean") EXCEPT !.isBoolean = TRUE, !.isUnion = TRUE,
                              !.unionTypes = <<FalseLit, TrueLit>>]
BigIntLit == [NoKind("10n") EXCEPT !.isLiteral = TRUE, !.literalValue = JsBigInt(10)]
\* a type no kind query answers for
AnyT == NoKind("any")
\* a function type: an object type without members
FunctionT == [NoKind("() => number") EXCEPT !.isObject = TRUE]
\* Date is an interface: an object type whose members are methods
DateT ==
    [NoKind("Date") EXCEPT !.isObject = TRUE,
                           !.properties = <<Member("getTime", FunctionT, FALSE)>>]
\* T[] is a reference to Array<T>: an array and an object type
ArrayOf(t) ==
    [NoKind(t.text \o "[]") EXCEPT !.isArray = TRUE, !.elem = <<t>>,
                               !.isObject = TRUE,
                               !.properties = <<Member("length", NumberT, FALSE)>>]

RECURSIVE JoinTexts(_, _)
JoinTexts(texts, sep) ==
    IF Len(texts) = 0 THEN ""
    ELSE IF Len(texts) = 1 THEN texts[1]
    ELSE texts[1] \o sep \o JoinTexts(Tail(texts), sep)

UnionOf(ts) ==
    [NoKind(IF ts = <<>> THEN "never"
            ELSE JoinTexts([i \in 1..Len(ts) |-> ts[i].text], " | "))
        EXCEPT !.isUnion = TRUE, !.unionTypes = ts]

MemberText(m) ==
    m.name \o (IF m.isOptional THEN "?" ELSE "") \o ": "
           \o (IF m.decl = "typed" THEN m.type[1].text ELSE "?") \o ";"
ObjectOf(ms) ==
    [NoKind("{ " \o JoinTexts([i \in 1..Len(ms) |-> MemberText(ms[i])], " ") \o " }")
        EXCEPT !.isObject = TRUE, !.properties = ms]

(***************************************************************************)
(* The type expressions handed to the resolver.                            *)
(***************************************************************************)
SeqsOfLen(S, lo, hi) == UNION {[1..k -> S] : k \in lo..hi}

MemberName(i) == "p" \o ToString(i)

QuoteLit == StringLit("it's")

Leaves ==
    {StringT, NumberT, BooleanT, DateT, StringLit("a"), QuoteLit, NumberLit(1),
     TrueLit, BigIntLit, AnyT, FunctionT}

\* member types of the unions and objects that have several members
UnionPool == {StringLit("a"), QuoteLit, NumberLit(1), AnyT, BigIntLit, ArrayOf(StringT)}
ObjectPool == {StringT, AnyT, BigIntLit, ObjectOf(<<Member("inner", AnyT, TRUE)>>)}

\* the member lists of an object type over the member types S
MemberLists(S, lo, hi) ==
    LET choice == {<<"typed", t, o>> : t \in S, o \in BOOLEAN}
                    \cup {<<"none">>, <<"untyped">>}
        mk(i, c) == IF c[1] = "typed" THEN Member(MemberName(i), c[2], c[3])
                    ELSE BrokenMember(MemberName(i), c[1])
    IN  {[i \in 1..Len(cs) |-> mk(i, cs[i])] : cs \in SeqsOfLen(choice, lo, hi)}

WideTypes ==
    {UnionOf(ts) : ts \in SeqsOfLen(UnionPool, 2, MaxMembers)}
    \cup {ObjectOf(ms) : ms \in MemberLists(ObjectPool, 2, MaxMembers)}
    \cup {UnionOf(<<>>), ObjectOf(<<>>)}
    \cup {ObjectOf(ms) : ms \in MemberLists({}, 1, 1)}

\* type expressions of nesting depth at most d: arrays, one-member unions and
\* one-member objects nest to any depth, wider member lists hold pool types
RECURSIVE PureTypes(_)
PureTypes(d) ==
    IF d = 0 THEN Leaves
    ELSE LET sub == PureTypes(d - 1)
         IN  Leaves \cup WideTypes
             \cup {ArrayOf(t) : t \in sub}
             \cup {UnionOf(<<t>>) : t \in sub}
             \cup {ObjectOf(<<Member(MemberName(1), t, o)>>) : t \in sub, o \in BOOLEAN}

\* handles answering any combination of the kind queries at once
OverlapTypes ==
    {[text |-> tx,
      isString |-> f[1], isNumber |-> f[2], isBoolean |-> f[3],
      isArray |-> f[4], elem |-> IF f[4] THEN <<e>> ELSE <<>>,
      isUnion |-> f[5], unionTypes |-> IF f[5] THEN u ELSE <<>>,
      isLiteral |-> f[6], literalValue |-> IF f[6] THEN v ELSE JsUndefined,
      isObject |-> f[7], properties |-> IF f[7] THEN p ELSE <<>>] :
        f \in [1..7 -> BOOLEAN], tx \in {"Date", "T"}, e \in {StringT, AnyT},
        u \in {<<>>, <<StringLit("a")>>},
        v \in {JsString("a"), JsNumber(1), JsBoolean(TRUE), JsBigInt(10), JsUndefined},
        p \in {<<>>, <<Member(MemberName(1), StringT, TRUE)>>}}

TypeHandles == OverlapTypes \cup PureTypes(MaxDepth)

(***************************************************************************)
(* Outcomes: a call returns a value or throws an Error with a message.     *)
(***************************************************************************)
Return(v) == [ok |-> TRUE, value |-> <<v>>, error |-> ""]
Throw(message) == [ok |-> FALSE, value |-> <<>>, error |-> message]

\* Array.prototype.map over callbacks that may throw: the callbacks run in
\* index order and the first throw ends the call
\* mutant: a map that leaves out the callbacks that threw
MapOutcome_skipFailed(rs) ==
    LET kept == SelectSeq(rs, LAMBDA r : r.ok)
    IN  Return([i \in DOMAIN kept |-> kept[i].value[1]])

MapOutcome(rs) ==
    IF \A i \in DOMAIN rs : rs[i].ok
    THEN Return([i \in DOMAIN rs |-> rs[i].value[1]])
    ELSE rs[CHOOSE i \in DOMAIN rs : ~rs[i].ok /\ \A j \in 1..(i - 1) : rs[j].ok]

(***************************************************************************)
(* The IR (PropertyType, Property, ParsedClass).                           *)
(***************************************************************************)
Primitive(name) == [kind |-> "primitive", type |-> name]
ArrayType(elementType) == [kind |-> "array", elementType |-> elementType]
UnionType(types) == [kind |-> "union", types |-> types]
LiteralType(value) == [kind |-> "literal", value |-> value]
ObjectType(properties) == [kind |-> "object", properties |-> properties]

Property(name, type, isOptional, isReadonly, hasDefaultValue) ==
    [name |-> name, type |-> type, isOptional |-> isOptional,
     isReadonly |-> isReadonly, hasDefaultValue |-> hasDefaultValue]

(***************************************************************************)
(* parserPropertyType: the type resolver.                                  *)
(***************************************************************************)
RepresentableLiteral(value) == value.typeof \in {"string", "number", "boolean"}

RECURSIVE parserPropertyType(_)

\* mutant: the optional marker of a member is not read
ObjectMember_required(symbol) ==
    IF symbol.decl = "none"
    THEN Throw("No declaration found for property " \o symbol.name)
    ELSE IF symbol.decl # "typed"
    THEN Throw("Cannot get type for property " \o symbol.name)
    ELSE LET r == parserPropertyType(symbol.type[1])
         IN  IF r.ok
             THEN Return(Property(symbol.name, r.value[1], FALSE, FALSE, FALSE))
             ELSE r

\* the callback of properties.map in the object branch
ObjectMember(symbol) ==
    IF symbol.decl = "none"
    THEN Throw("No declaration found for property " \o symbol.name)
    ELSE IF symbol.decl # "typed"
    THEN Throw("Cannot get type for property " \o symbol.name)
    ELSE LET r == parserPropertyType(symbol.type[1])
         IN  IF r.ok
             THEN Return(Property(symbol.name, r.value[1], symbol.isOptional, FALSE, FALSE))
             ELSE r

\* mutant: an array of arrays is flattened to one level
CheckArrayType_flat(type) ==
    LET r == parserPropertyType(type.elem[1])
    IN  IF ~r.ok THEN r
        ELSE IF r.value[1].kind = "array" THEN r
        ELSE Return(ArrayType(r.value[1]))

\* #region Check Array type
CheckArrayType(type) ==
    LET r == parserPropertyType(type.elem[1])
    IN  IF r.ok THEN Return(ArrayType(r.value[1])) ELSE r

\* mutant: the members are taken in reverse order
CheckUnionType_reversed(type) ==
    LET n == Len(type.unionTypes)
        rs == MapOutcome([i \in 1..n |-> parserPropertyType(type.unionTypes[n + 1 - i])])
    IN  IF rs.ok THEN Return(UnionType(rs.value[1])) ELSE rs

\* #region Check Union type
CheckUnionType(type) ==
    LET rs == MapOutcome([i \in 1..Len(type.unionTypes) |->
                             parserPropertyType(type.unionTypes[i])])
    IN  IF rs.ok THEN Return(UnionType(rs.value[1])) ELSE rs

\* #region Check Object type
CheckObjectType(type) ==
    LET rs == MapOutcome([i \in 1..Len(type.properties) |->
                             ObjectMember(type.properties[i])])
    IN  IF rs.ok THEN Return(ObjectType(rs.value[1])) ELSE rs

\* mutant: the union check is made before the primitive checks
parserPropertyType_unionFirst(type) ==
    IF type.isUnion THEN CheckUnionType(type)
    ELSE IF type.isString THEN Return(Primitive("string"))
    ELSE IF type.isNumber THEN Return(Primitive("number"))
    ELSE IF type.isBoolean THEN Return(Primitive("boolean"))
    ELSE IF type.text = "Date" THEN Return(Primitive("Date"))
    ELSE IF type.isArray THEN CheckArrayType(type)
    ELSE IF type.isLiteral /\ RepresentableLiteral(type.literalValue)
    THEN Return(LiteralType(type.literalValue))
    ELSE IF type.isObject THEN CheckObjectType(type)
    ELSE Throw("Unsupported type: " \o type.text)

parserPropertyType(type) ==
    IF type.isString THEN Return(Primitive("string"))
    ELSE IF type.isNumber THEN Return(Primitive("number"))
    ELSE IF type.isBoolean THEN Return(Primitive("boolean"))
    ELSE IF type.text = "Date" THEN Return(Primitive("Date"))
    ELSE IF type.isArray THEN CheckArrayType(type)
    ELSE IF type.isUnion THEN CheckUnionType(type)
    ELSE IF type.isLiteral /\ RepresentableLiteral(type.literalValue)
    THEN Return(LiteralType(type.literalValue))
    ELSE IF type.isObject THEN CheckObjectType(type)
    ELSE Throw("Unsupported type: " \o type.text)

(***************************************************************************)
(* The class parser.                                                       *)
(***************************************************************************)
PropertyDeclaration(name, type, hasQuestionToken, isReadonly, hasInitializer) ==
    [name |-> name, type |-> type, hasQuestionToken |-> hasQuestionToken,
     isReadonly |-> isReadonly, hasInitializer |-> hasInitializer]

ClassDeclaration(name, isExported, properties) ==
    [name |-> name, isExported |-> isExported, properties |-> properties]

\* mutant: readonly and the initializer are read into each other's flag
parseProperty_swapped(property) ==
    LET r == parserPropertyType(property.type)
    IN  IF r.ok
        THEN Return(Property(property.name, r.value[1], property.hasQuestionToken,
                             property.hasInitializer, property.isReadonly))
        ELSE r

parseProperty(property) ==
    LET r == parserPropertyType(property.type)
    IN  IF r.ok
        THEN Return(Property(property.name, r.value[1], property.hasQuestionToken,
                             property.isReadonly, property.hasInitializer))
        ELSE r

parseProperties(classDeclaration) ==
    MapOutcome([i \in 1..Len(classDeclaration.properties) |->
                   parseProperty(classDeclaration.properties[i])])

\* sourceFile.getClass(className): the first class of that name, if any
getClass(classes, className) ==
    LET found == {i \in 1..Len(classes) : classes[i].name = className}
    IN  IF found = {} THEN <<>>
        ELSE <<classes[CHOOSE i \in found : \A j \in found : i <= j]>>

\* req: the file at filePath (its class declarations) and the class asked for
parseClass(req) ==
    LET classDeclaration == getClass(req.classes, req.className)
    IN  IF classDeclaration = <<>>
        THEN Throw("Class '" \o req.className \o "' not found in file '"
                       \o req.filePath \o "'")
        ELSE LET properties == parseProperties(classDeclaration[1])
             IN  IF properties.ok
                 THEN Return([name |-> req.className,
                              filePath |-> req.filePath,
                              isExported |-> classDeclaration[1].isExported,
                              properties |-> properties.value[1]])
                 ELSE properties

(***************************************************************************)
(* ElysiaTypeBoxGenerator.                                                 *)
(***************************************************************************)
\* `${value}`: the string a template literal makes of a value
TemplateString(value) ==
    CASE value.typeof = "string" -> value.s
      [] value.typeof = "number" -> ToString(value.n)
      [] value.typeof = "boolean" -> (IF value.b THEN "true" ELSE "false")
      [] value.typeof = "undefined" -> "undefined"
      [] OTHER -> "[object Object]"

UpperCaseLetters == "ABCDEFGHIJKLMNOPQRSTUVWXYZ"
LowerCaseLetters == "abcdefghijklmnopqrstuvwxyz"

\* String.prototype.toLowerCase on a string of at most one character
toLowerCase(c) ==
    LET at == {i \in 1..Len(UpperCaseLetters) : SubSeq(UpperCaseLetters, i, i) = c}
    IN  IF at = {} THEN c
        ELSE LET i == CHOOSE i \in at : TRUE IN SubSeq(LowerCaseLetters, i, i)

charAt0(str) == IF Len(str) = 0 THEN "" ELSE SubSeq(str, 1, 1)
slice1(str) == IF Len(str) = 0 THEN "" ELSE SubSeq(str, 2, Len(str))

getImports == <<"import { t } from \"elysia\"">>

\* mutant: the first character keeps its case
generateSchemaName_sameCase(className) ==
    className \o "Schema"

generateSchemaName(className) ==
    LET camelCase == toLowerCase(charAt0(className)) \o slice1(className)
    IN  camelCase \o "Schema"

\* mutant: the Date case is missing
generatePrimitiveType_noDate(type) ==
    CASE type = "string" -> Return("t.String()")
      [] type = "number" -> Return("t.Number()")
      [] type = "boolean" -> Return("t.Boolean()")
      [] OTHER -> Throw("Unsupported primitive type: \"" \o type \o "\"")

generatePrimitiveType(type) ==
    CASE type = "string" -> Return("t.String()")
      [] type = "number" -> Return("t.Number()")
      [] type = "boolean" -> Return("t.Boolean()")
      [] type = "Date" -> Return("t.Date()")
      [] OTHER -> Throw("Unsupported primitive type: \"" \o type \o "\"")

generateLiteralType(value) ==
    IF value.typeof = "string"
    THEN "t.Literal('" \o value.s \o "')"
    ELSE "t.Literal(" \o TemplateString(value) \o ")"

RECURSIVE generateType(_)

\* mutant: the optional marker is never written
generateProperty_neverOptional(property) ==
    LET typeCode == generateType(property.type)
    IN  IF ~typeCode.ok THEN typeCode
        ELSE Return("  " \o property.name \o ": " \o typeCode.value[1])

generateProperty(property) ==
    LET typeCode == generateType(property.type)
    IN  IF ~typeCode.ok THEN typeCode
        ELSE LET code == IF property.isOptional
                         THEN "t.Optional(" \o typeCode.value[1] \o ")"
                         ELSE typeCode.value[1]
             IN  Return("  " \o property.name \o ": " \o code)

generateObjectType(properties) ==
    LET props == MapOutcome([i \in 1..Len(properties) |-> generateProperty(properties[i])])
    IN  IF props.ok
        THEN Return("t.Object({\n" \o JoinTexts(props.value[1], ",\n") \o "\n})")
        ELSE props

generateUnionType(types) ==
    LET typeCodes == MapOutcome([i \in 1..Len(types) |-> generateType(types[i])])
    IN  IF typeCodes.ok
        THEN Return("t.Union([" \o JoinTexts(typeCodes.value[1], ", ") \o "])")
        ELSE typeCodes

\* the message of the default branch carries JSON.stringify(type); only its
\* kind field is spelled out here
generateType(type) ==
    CASE type.kind = "primitive" -> generatePrimitiveType(type.type)
      [] type.kind = "array" ->
            LET element == generateType(type.elementType)
            IN  IF element.ok THEN Return("t.Array(" \o element.value[1] \o ")")
                ELSE element
      [] type.kind = "object" -> generateObjectType(type.properties)
      [] type.kind = "union" -> generateUnionType(type.types)
      [] type.kind = "literal" -> Return(generateLiteralType(type.value))
      [] OTHER -> Throw("Unsupported type: {\"kind\":\"" \o type.kind \o "\"}")

generateProperties(properties) ==
    LET props == MapOutcome([i \in 1..Len(properties) |-> generateProperty(properties[i])])
    IN  IF props.ok THEN Return(JoinTexts(props.value[1], ",\n")) ELSE props

generate(parsedClass) ==
    LET imports == JoinTexts(getImports, "\n")
        schemaName == generateSchemaName(parsedClass.name)
        properties == generateProperties(parsedClass.properties)
    IN  IF properties.ok
        THEN Return(imports \o "\n\nexport const " \o schemaName \o " = t.Object({ \n"
                        \o properties.value[1] \o " });")
        ELSE properties

(***************************************************************************)
(* The inputs: source files and the class asked for.                       *)
(***************************************************************************)
PlainProperty(name, type) == PropertyDeclaration(name, type, FALSE, FALSE, FALSE)

\* class Task { id: string; status: 'pending'|'active'|'completed'; priority: 1|2|3 }
TaskClass ==
    ClassDeclaration("Task", TRUE,
        <<PlainProperty("id", StringT),
          PlainProperty("status",
              UnionOf(<<StringLit("pending"), StringLit("active"), StringLit("completed")>>)),
          PlainProperty("priority", UnionOf(<<NumberLit(1), NumberLit(2), NumberLit(3)>>))>>)

\* tests/fixtures/nested-object.ts
UserProfileClass ==
    ClassDeclaration("UserProfile", TRUE,
        <<PlainProperty("id", StringT),
          PlainProperty("name", StringT),
          PlainProperty("address",
              ObjectOf(<<Member("street", StringT, FALSE), Member("city", StringT, FALSE),
                         Member("zipCode", NumberT, FALSE)>>))>>)

FlagCombinations == [1..3 -> BOOLEAN]

\* a class with one string property for each combination of ?, readonly and
\* an initializer
FlagsClass ==
    LET bit(i, k) == ((i - 1) \div k) % 2 = 1
    IN  ClassDeclaration("flags", FALSE,
            [i \in 1..Cardinality(FlagCombinations) |->
                PropertyDeclaration(MemberName(i), StringT, bit(i, 4), bit(i, 2), bit(i, 1))])

FixtureClasses == {TaskClass, UserProfileClass, FlagsClass}

\* a class with one property of the type expression t
SingleClass(t) == ClassDeclaration("Model", TRUE, <<PlainProperty("value", t)>>)

PropertyPool ==
    {StringT, AnyT, ObjectOf(<<Member("inner", NumberLit(1), TRUE)>>)}

\* up to MaxProps properties, each a type with a combination of the flags
PropertyLists == SeqsOfLen(PropertyPool \X FlagCombinations, 0, MaxProps)

MultiClass(ps) ==
    ClassDeclaration("Model", TRUE,
        [i \in 1..Len(ps) |->
            PropertyDeclaration(MemberName(i), ps[i][1], ps[i][2][1], ps[i][2][2], ps[i][2][3])])

\* an empty class of a given name
NamedClass(name) == ClassDeclaration(name, TRUE, <<>>)

NamePool == {"URLConfig", "X", "a", "_Dto", "Order2"}

ClassNames == {"Task", "UserProfile", "flags", "Missing"}

FilePath == "src/dto/model.ts"

Request(classes, className) ==
    [filePath |-> FilePath, classes |-> classes, className |-> className]

\* files of up to two classes, asked for a class that is or is not there
FixtureRequests ==
    {Request(classes, n) : classes \in SeqsOfLen(FixtureClasses, 0, 2), n \in ClassNames}
    \cup {Request(<<[c EXCEPT !.isExported = ~c.isExported]>>, c.name) : c \in FixtureClasses}

(***************************************************************************)
(* The program: parseClass on a file, then generate on what it returned.   *)
(***************************************************************************)
NoClass == [name |-> "", filePath |-> "", isExported |-> FALSE, properties |-> <<>>]

\* the call about to be made: its arguments are the inputs of a run
Init ==
    /\ pc = "idle"
    /\ \/ \E t \in TypeHandles : request = Request(<<SingleClass(t)>>, "Model")
       \/ \E ps \in PropertyLists : request = Request(<<MultiClass(ps)>>, "Model")
       \/ request \in FixtureRequests
       \/ \E n \in NamePool : request = Request(<<NamedClass(n)>>, n)
    /\ parsed = NoClass
    /\ error = ""
    /\ output = ""
    /\ typeTable = <<>>
    /\ stack = <<>>
    /\ returned = <<>>

ParseClass ==
    /\ pc = "idle"
    /\ LET r == parseClass(request)
       IN  IF r.ok
           THEN /\ pc' = "parsed"
                /\ parsed' = r.value[1]
                /\ error' = ""
           ELSE /\ pc' = "parseFailed"
                /\ parsed' = NoClass
                /\ error' = r.error
    /\ UNCHANGED <<request, output, typeTable, stack, returned>>

Generate ==
    /\ pc = "parsed"
    /\ LET r == generate(parsed)
       IN  IF r.ok
           THEN /\ pc' = "generated"
                /\ output' = r.value[1]
                /\ error' = ""
           ELSE /\ pc' = "generateFailed"
                /\ output' = ""
                /\ error' = r.error
    /\ UNCHANGED <<request, parsed, typeTable, stack, returned>>

Next ==
    \/ ParseClass
    \/ Generate

Spec == Init /\ [][Next]_vars

(***************************************************************************)
(* parserPropertyType call by call, on a provider type graph.              *)
(*                                                                         *)
(* The provider hands out types that may refer to each other in any way    *)
(* (class Node { next: Node }), so here a type is an entry of typeTable    *)
(* and the handles it answers with (element type, union members,          *)
(* member types) are indices of that table. stack holds the calls of       *)
(* parserPropertyType in progress, the innermost last: the type each works *)
(* on and the results of the calls it has made so far.                     *)
(***************************************************************************)
ArrayOfRef(j) == [NoKind("T" \o ToString(j) \o "[]") EXCEPT !.isArray = TRUE, !.elem = <<j>>]
UnionOfRefs(js) ==
    [NoKind(JoinTexts([i \in 1..Len(js) |-> "T" \o ToString(js[i])], " | "))
        EXCEPT !.isUnion = TRUE, !.unionTypes = js]
ObjectOfRefs(ms) == [NoKind("{...}") EXCEPT !.isObject = TRUE, !.properties = ms]

\* what an entry of the table can be, over the indices ids
TypeEntries(ids) ==
    {StringT, AnyT}
    \cup {ArrayOfRef(j) : j \in ids}
    \cup {UnionOfRefs(js) : js \in SeqsOfLen(ids, 2, 2)}
    \cup {ObjectOfRefs(<<Member("next", j, FALSE)>>) : j \in ids}

TypeGraphs == [1..MaxTypes -> TypeEntries(1..MaxTypes)]

Frame(type) == [type |-> type, done |-> <<>>]

\* the members of an object type the map callback gets a type for, up to the
\* first one it throws on
TypedPrefix(properties) ==
    LET broken == {i \in DOMAIN properties : properties[i].decl # "typed"}
        n == IF broken = {} THEN Len(properties)
             ELSE (CHOOSE i \in broken : \A k \in broken : i <= k) - 1
    IN  [i \in 1..n |-> properties[i].type[1]]

\* the handles a call on type passes to parserPropertyType, in call order
Callees(type) ==
    IF type.isString \/ type.isNumber \/ type.isBoolean \/ type.text = "Date" THEN <<>>
    ELSE IF type.isArray THEN type.elem
    ELSE IF type.isUnion THEN type.unionTypes
    ELSE IF type.isLiteral /\ RepresentableLiteral(type.literalValue) THEN <<>>
    ELSE IF type.isObject THEN TypedPrefix(type.properties)
    ELSE <<>>

\* how a call on type ends once the calls it made have returned done
Finish(type, done) ==
    IF type.isString THEN Return(Primitive("string"))
    ELSE IF type.isNumber THEN Return(Primitive("number"))
    ELSE IF type.isBoolean THEN Return(Primitive("boolean"))
    ELSE IF type.text = "Date" THEN Return(Primitive("Date"))
    ELSE IF type.isArray THEN Return(ArrayType(done[1]))
    ELSE IF type.isUnion THEN Return(UnionType(done))
    ELSE IF type.isLiteral /\ RepresentableLiteral(type.literalValue)
    THEN Return(LiteralType(type.literalValue))
    ELSE IF type.isObject
    THEN IF Len(done) < Len(type.properties)
         THEN LET symbol == type.properties[Len(done) + 1]
              IN  IF symbol.decl = "none"
                  THEN Throw("No declaration found for property " \o symbol.name)
                  ELSE Throw("Cannot get type for property " \o symbol.name)
         ELSE Return(ObjectType([i \in DOMAIN done |->
                  Property(type.properties[i].name, done[i],
                           type.properties[i].isOptional, FALSE, FALSE)]))
    ELSE Throw("Unsupported type: " \o type.text)

Top == stack[Len(stack)]
Pending == Len(Top.done) < Len(Callees(typeTable[Top.type]))

RangeError == Throw("Maximum call stack size exceeded")

\* the root call: the type of a property, entry 1 of the table
InitGraph ==
    /\ pc = "resolving"
    /\ request = Request(<<>>, "")
    /\ parsed = NoClass
    /\ error = ""
    /\ output = ""
    /\ typeTable \in TypeGraphs
    /\ stack = <<Frame(1)>>
    /\ returned = <<>>

\* the innermost call makes its next recursive call
Call ==
    /\ pc = "resolving"
    /\ Pending
    /\ Len(stack) < MaxStack
    /\ stack' = Append(stack, Frame(Callees(typeTable[Top.type])[Len(Top.done) + 1]))
    /\ UNCHANGED <<pc, request, parsed, error, output, typeTable, returned>>

\* the recursive call does not fit on the call stack: the engine throws
StackOverflow ==
    /\ pc = "resolving"
    /\ Pending
    /\ Len(stack) = MaxStack
    /\ pc' = "resolveFailed"
    /\ stack' = <<>>
    /\ returned' = RangeError
    /\ UNCHANGED <<request, parsed, error, output, typeTable>>

\* the innermost call returns its node to its caller
ReturnNode ==
    /\ pc = "resolving"
    /\ ~Pending
    /\ LET r == Finish(typeTable[Top.type], Top.done)
           n == Len(stack)
       IN  /\ r.ok
           /\ IF n = 1
              THEN /\ pc' = "resolved"
                   /\ stack' = <<>>
                   /\ returned' = r
              ELSE /\ pc' = pc
                   /\ stack' = [SubSeq(stack, 1, n - 1) EXCEPT
                                   ![n - 1].done = Append(@, r.value[1])]
                   /\ returned' = returned
    /\ UNCHANGED <<request, parsed, error, output, typeTable>>

\* the innermost call throws: nothing catches, every call in progress ends
ThrowError ==
    /\ pc = "resolving"
    /\ ~Pending
    /\ LET r == Finish(typeTable[Top.type], Top.done)
       IN  /\ ~r.ok
           /\ returned' = r
    /\ pc' = "resolveFailed"
    /\ stack' = <<>>
    /\ UNCHANGED <<request, parsed, error, output, typeTable>>

NextGraph ==
    \/ Call
    \/ StackOverflow
    \/ ReturnNode
    \/ ThrowError

SpecGraph == InitGraph /\ [][NextGraph]_vars

(***************************************************************************)
(* What a run shows of the resolver.                                       *)
(***************************************************************************)
Parsed == pc \in {"parsed", "generated", "generateFailed"}
Called == pc # "idle"

\* the declaration parseClass works on, if the file has the class
Asked == getClass(request.classes, request.className)
Declared == IF Asked = <<>> THEN <<>> ELSE Asked[1].properties

\* the properties whose resolution the run shows: all of them when
\* parseClass returned, and the only one of a one-property class when it threw
Shown == {i \in DOMAIN Declared : Called /\ (Parsed \/ Len(Declared) = 1)}
Outcome(i) == IF Parsed THEN Return(parsed.properties[i].type) ELSE Throw(error)

\* the type expressions and IR nodes shown by the run, as pairs <<handle, outcome>>
ShownTypes == {<<Declared[i].type, Outcome(i)>> : i \in Shown}

\* every node of an IR tree
RECURSIVE Nodes(_)
Nodes(ir) ==
    {ir} \cup
    (CASE ir.kind = "array" -> Nodes(ir.elementType)
       [] ir.kind = "union" -> UNION {Nodes(ir.types[i]) : i \in DOMAIN ir.types}
       [] ir.kind = "object" ->
            UNION {Nodes(ir.properties[i].type) : i \in DOMAIN ir.properties}
       [] OTHER -> {})

ParsedNodes == UNION {Nodes(parsed.properties[i].type) : i \in DOMAIN parsed.properties}

(***************************************************************************)
(* C1: resolve returns the result of the earliest matching step of the     *)
(* fixed order string, number, boolean, Date text, array, union, literal   *)
(* (a value that is a string, number or boolean), object, failure; no      *)
(* later step overrides an earlier matching one.                           *)
(***************************************************************************)
StepMatches(type) ==
    <<type.isString, type.isNumber, type.isBoolean, type.text = "Date",
      type.isArray, type.isUnion,
      type.isLiteral /\ type.literalValue.typeof \in {"string", "number", "boolean"},
      type.isObject, TRUE>>

EarliestStep(type) ==
    CHOOSE k \in 1..9 : StepMatches(type)[k] /\ \A j \in 1..(k - 1) : ~StepMatches(type)[j]

StepResult(type, o) ==
    CASE EarliestStep(type) = 1 -> o = Return(Primitive("string"))
      [] EarliestStep(type) = 2 -> o = Return(Primitive("number"))
      [] EarliestStep(type) = 3 -> o = Return(Primitive("boolean"))
      [] EarliestStep(type) = 4 -> o = Return(Primitive("Date"))
      [] EarliestStep(type) = 5 ->
            IF o.ok THEN o.value[1].kind = "array"
            ELSE o = parserPropertyType(type.elem[1])
      [] EarliestStep(type) = 6 ->
            IF o.ok THEN o.value[1].kind = "union"
            ELSE \E i \in DOMAIN type.unionTypes : o = parserPropertyType(type.unionTypes[i])
      [] EarliestStep(type) = 7 -> o = Return(LiteralType(type.literalValue))
      [] EarliestStep(type) = 8 ->
            IF o.ok THEN o.value[1].kind = "object"
            ELSE type.properties # <<>>
      [] EarliestStep(type) = 9 -> o = Throw("Unsupported type: " \o type.text)

C1_FirstMatchWins == \A p \in ShownTypes : StepResult(p[1], p[2])

\* a handle that is a boolean and a union and an object at once resolved to
\* the boolean primitive
C1_Witness ==
    \E p \in ShownTypes :
        /\ p[1].isBoolean /\ p[1].isUnion /\ p[1].isObject /\ p[1].isLiteral
        /\ ~p[1].isString /\ ~p[1].isNumber
        /\ p[2] = Return(Primitive("boolean"))

(***************************************************************************)
(* C2 (as amended): when resolving the properties in declaration order,    *)
(* depth first, meets a type that matches none of the IR kinds, parseClass *)
(* throws and returns no ParsedClass; the error is the first failure met   *)
(* in that order, and for an unsupported type it names the text of the     *)
(* offending type itself, which for a nested type is not the text of the   *)
(* property's declared type.                                               *)
(***************************************************************************)
RECURSIVE Flatten(_)
Flatten(seqs) == IF seqs = <<>> THEN <<>> ELSE Head(seqs) \o Flatten(Tail(seqs))

\* the failures met when every type the resolver visits is visited, in order
RECURSIVE Failures(_)
MemberFailures(symbol) ==
    CASE symbol.decl = "none" -> <<"No declaration found for property " \o symbol.name>>
      [] symbol.decl = "untyped" -> <<"Cannot get type for property " \o symbol.name>>
      [] OTHER -> Failures(symbol.type[1])
Failures(type) ==
    CASE EarliestStep(type) = 5 -> Failures(type.elem[1])
      [] EarliestStep(type) = 6 ->
            Flatten([i \in DOMAIN type.unionTypes |-> Failures(type.unionTypes[i])])
      [] EarliestStep(type) = 8 ->
            Flatten([i \in DOMAIN type.properties |-> MemberFailures(type.properties[i])])
      [] EarliestStep(type) = 9 -> <<"Unsupported type: " \o type.text>>
      [] OTHER -> <<>>

ClassFailures == Flatten([i \in DOMAIN Declared |-> Failures(Declared[i].type)])

C2_FirstFailureNoPartial ==
    (Called /\ Asked # <<>>) =>
        IF ClassFailures = <<>> THEN Parsed
        ELSE /\ pc = "parseFailed"
             /\ parsed = NoClass
             /\ error = Head(ClassFailures)

\* a property of type any[]: parseClass threw, and the error names the
\* element type any
C2_Witness ==
    /\ pc = "parseFailed"
    /\ parsed = NoClass
    /\ error = "Unsupported type: any"
    /\ \E i \in DOMAIN Declared : Declared[i].type.text = "any[]"

\* the types the resolver reaches inside a type expression
RECURSIVE VisitedTypes(_)
VisitedTypes(type) ==
    {type} \cup
    (CASE EarliestStep(type) = 5 -> VisitedTypes(type.elem[1])
       [] EarliestStep(type) = 6 ->
            UNION {VisitedTypes(type.unionTypes[i]) : i \in DOMAIN type.unionTypes}
       [] EarliestStep(type) = 8 ->
            UNION {VisitedTypes(type.properties[i].type[1]) :
                      i \in {j \in DOMAIN type.properties : type.properties[j].decl = "typed"}}
       [] OTHER -> {})

\* C2 as stated: the failure names the textual type of the property that
\* holds the unsupported type
C2_NamesPropertyType ==
    (Called /\ Asked # <<>>) =>
        \A i \in DOMAIN Declared :
            (\E t \in VisitedTypes(Declared[i].type) : EarliestStep(t) = 9)
                => /\ pc = "parseFailed"
                   /\ parsed = NoClass
                   /\ error = "Unsupported type: " \o Declared[i].type.text

(***************************************************************************)
(* C3: resolving a union whose provider reports no member types fails;     *)
(* no union node with an empty types list is ever returned.                *)
(***************************************************************************)
C3_NoEmptyUnion ==
    Parsed => \A node \in ParsedNodes : node.kind = "union" => node.types # <<>>

(***************************************************************************)
(* C4: a literal type whose value is not a string, number or boolean ends  *)
(* in the failure "Unsupported type", whatever the provider answers to     *)
(* the object query.                                                       *)
(***************************************************************************)
ReachesLiteralStep(type) ==
    /\ \A k \in 1..6 : ~StepMatches(type)[k]
    /\ type.isLiteral

C4_UnrepresentableLiteralFails ==
    \A p \in ShownTypes :
        (ReachesLiteralStep(p[1]) /\ ~StepMatches(p[1])[7])
            => p[2] = Throw("Unsupported type: " \o p[1].text)

(***************************************************************************)
(* C5: a union of N >= 1 members resolves to a union node of exactly N     *)
(* entries, the i-th being the resolution of the i-th member in the        *)
(* provider's order; N literal alternatives give N literal nodes in order. *)
(***************************************************************************)
C5_UnionMembersInOrder ==
    \A p \in ShownTypes :
        (EarliestStep(p[1]) = 6 /\ Len(p[1].unionTypes) >= 1) =>
            LET members == p[1].unionTypes
                each == [i \in DOMAIN members |-> parserPropertyType(members[i])]
            IN  IF \A i \in DOMAIN members : each[i].ok
                THEN /\ p[2].ok
                     /\ p[2].value[1].kind = "union"
                     /\ Len(p[2].value[1].types) = Len(members)
                     /\ \A i \in DOMAIN members :
                           /\ p[2].value[1].types[i] = each[i].value[1]
                           /\ EarliestStep(members[i]) = 7 =>
                                 p[2].value[1].types[i] = LiteralType(members[i].literalValue)
                ELSE ~p[2].ok

\* the status property of class Task
C5_Witness ==
    /\ Parsed
    /\ parsed.name = "Task"
    /\ \E i \in DOMAIN parsed.properties :
          /\ parsed.properties[i].name = "status"
          /\ parsed.properties[i].type =
                UnionType(<<LiteralType(JsString("pending")), LiteralType(JsString("active")),
                            LiteralType(JsString("completed"))>>)

(***************************************************************************)
(* C6: every Property inside an object node, at any depth, has             *)
(* isReadonly = FALSE and hasDefaultValue = FALSE, and its isOptional is   *)
(* the member's optional marker.                                           *)
(***************************************************************************)
RECURSIVE MembersMirrored(_, _)
MembersMirrored(type, ir) ==
    CASE ir.kind = "array" -> MembersMirrored(type.elem[1], ir.elementType)
      [] ir.kind = "union" ->
            \A i \in DOMAIN ir.types : MembersMirrored(type.unionTypes[i], ir.types[i])
      [] ir.kind = "object" ->
            /\ Len(ir.properties) = Len(type.properties)
            /\ \A i \in DOMAIN ir.properties :
                  /\ ir.properties[i].isReadonly = FALSE
                  /\ ir.properties[i].hasDefaultValue = FALSE
                  /\ ir.properties[i].isOptional = type.properties[i].isOptional
                  /\ MembersMirrored(type.properties[i].type[1], ir.properties[i].type)
      [] OTHER -> TRUE

C6_NestedFlags ==
    Parsed => \A i \in DOMAIN parsed.properties :
                  MembersMirrored(Declared[i].type, parsed.properties[i].type)

\* a readonly property with an initializer whose object type has an
\* optional member
C6_Witness ==
    /\ Parsed
    /\ \E i \in DOMAIN parsed.properties :
          /\ parsed.properties[i].isReadonly
          /\ parsed.properties[i].hasDefaultValue
          /\ parsed.properties[i].type.kind = "object"
          /\ \E j \in DOMAIN parsed.properties[i].type.properties :
                /\ parsed.properties[i].type.properties[j].isOptional
                /\ ~parsed.properties[i].type.properties[j].isReadonly
                /\ ~parsed.properties[i].type.properties[j].hasDefaultValue

(***************************************************************************)
(* C7: the three flags of a top-level Property are the provider's answers  *)
(* for the ? marker, the readonly modifier and the initializer of its      *)
(* declaration, each independent of the others and of the type.            *)
(***************************************************************************)
C7_TopLevelFlags ==
    Parsed =>
        /\ Len(parsed.properties) = Len(Declared)
        /\ \A i \in DOMAIN Declared :
              /\ parsed.properties[i].isOptional = Declared[i].hasQuestionToken
              /\ parsed.properties[i].isReadonly = Declared[i].isReadonly
              /\ parsed.properties[i].hasDefaultValue = Declared[i].hasInitializer

\* one parsed class shows all 8 combinations of the flags
C7_Witness ==
    /\ Parsed
    /\ {<<parsed.properties[i].isOptional, parsed.properties[i].isReadonly,
          parsed.properties[i].hasDefaultValue>> : i \in DOMAIN parsed.properties}
          = BOOLEAN \X BOOLEAN \X BOOLEAN

(***************************************************************************)
(* C8: T[] resolves to array(X) when T resolves to X and fails when T      *)
(* fails, at every nesting depth.                                          *)
(***************************************************************************)
C8_ArrayRecursive ==
    \A p \in ShownTypes :
        EarliestStep(p[1]) = 5 =>
            LET element == parserPropertyType(p[1].elem[1])
            IN  IF element.ok THEN p[2] = Return(ArrayType(element.value[1]))
                ELSE p[2] = element

\* string[][]
C8_Witness ==
    \E p \in ShownTypes :
        /\ p[1].text = "string[][]"
        /\ p[2] = Return(ArrayType(ArrayType(Primitive("string"))))

(***************************************************************************)
(* C9: rendering is total over every IR tree the resolver produces: every  *)
(* kind and every primitive name it emits has a rendering rule, so the     *)
(* default branches of generateType and generatePrimitiveType are never    *)
(* reached and generate returns a string.                                  *)
(***************************************************************************)
C9_RenderingTotal ==
    /\ pc # "generateFailed"
    /\ Parsed => \A node \in ParsedNodes :
                    /\ node.kind \in {"primitive", "array", "object", "union", "literal"}
                    /\ node.kind = "primitive" =>
                          node.type \in {"string", "number", "boolean", "Date"}

\* text was generated for a tree holding a Date primitive inside an object
C9_Witness ==
    /\ pc = "generated"
    /\ output # ""
    /\ Primitive("Date") \in ParsedNodes
    /\ \E node \in ParsedNodes : node.kind = "object"

(***************************************************************************)
(* C10: a union of N literal members renders as one union-constructor call *)
(* holding exactly N literal-constructor calls in the order of the IR,     *)
(* string values quoted and number and boolean values bare, so that the    *)
(* values can be read back from the text.                                  *)
(***************************************************************************)
StartsWithAt(text, i, prefix) ==
    /\ i + Len(prefix) - 1 <= Len(text)
    /\ SubSeq(text, i, i + Len(prefix) - 1) = prefix

\* the first position from i on where ch stands, or 0
IndexFrom(text, i, ch) ==
    LET at == {j \in i..Len(text) : SubSeq(text, j, j) = ch}
    IN  IF at = {} THEN 0 ELSE CHOOSE j \in at : \A k \in at : j <= k

Occurrences(text, pattern) ==
    Cardinality({i \in 1..Len(text) : StartsWithAt(text, i, pattern)})

\* the literal-constructor calls of a text, read left to right: a quoted
\* argument up to its closing quote, a bare one up to the closing parenthesis
RECURSIVE ReadLiterals(_, _)
ReadLiterals(text, i) ==
    IF i > Len(text) THEN <<>>
    ELSE IF ~StartsWithAt(text, i, "t.Literal(") THEN ReadLiterals(text, i + 1)
    ELSE LET a == i + Len("t.Literal(")
             quoted == StartsWithAt(text, a, "'")
             close == IF quoted THEN IndexFrom(text, a + 1, "'")
                      ELSE IndexFrom(text, a, ")")
         IN  IF close = 0 THEN <<<<"unterminated", "">>>>
             ELSE IF quoted
             THEN <<<<"quoted", SubSeq(text, a + 1, close - 1)>>>>
                      \o ReadLiterals(text, close + 1)
             ELSE <<<<"bare", SubSeq(text, a, close - 1)>>>>
                      \o ReadLiterals(text, close + 1)

LiteralUnion(ir) ==
    /\ ir.kind = "union"
    /\ ir.types # <<>>
    /\ \A i \in DOMAIN ir.types : ir.types[i].kind = "literal"

\* what the members of a union of literals should read back as
WrittenLiterals(ir) ==
    IF ~LiteralUnion(ir) THEN <<>>
    ELSE [i \in DOMAIN ir.types |->
             IF ir.types[i].value.typeof = "string"
             THEN <<"quoted", ir.types[i].value.s>>
             ELSE <<"bare", TemplateString(ir.types[i].value)>>]

C10_UnionRoundTrip ==
    (/\ pc = "generated"
     /\ \A i \in DOMAIN parsed.properties :
           \/ LiteralUnion(parsed.properties[i].type)
           \/ parsed.properties[i].type.kind = "primitive")
    => /\ ReadLiterals(output, 1) =
              Flatten([i \in DOMAIN parsed.properties |->
                          WrittenLiterals(parsed.properties[i].type)])
       /\ Occurrences(output, "t.Union([") =
              Cardinality({i \in DOMAIN parsed.properties :
                              LiteralUnion(parsed.properties[i].type)})

(***************************************************************************)
(* C11: the text generate returns is the import statements of getImports,  *)
(* in order, followed by exactly one exported schema declaration; the      *)
(* declared name is the class name with its first character lower-cased    *)
(* and the rest unchanged, followed by Schema (UserProfile gives           *)
(* userProfileSchema).                                                     *)
(***************************************************************************)
EndsWith(text, suffix) ==
    /\ Len(suffix) <= Len(text)
    /\ SubSeq(text, Len(text) - Len(suffix) + 1, Len(text)) = suffix

\* the schema names the classes of the runs should get
ExpectedSchemaName(className) ==
    CASE className = "UserProfile" -> "userProfileSchema"
      [] className = "Task" -> "taskSchema"
      [] className = "Model" -> "modelSchema"
      [] className = "flags" -> "flagsSchema"
      [] className = "URLConfig" -> "uRLConfigSchema"
      [] className = "X" -> "xSchema"
      [] className = "a" -> "aSchema"
      [] className = "_Dto" -> "_DtoSchema"
      [] className = "Order2" -> "order2Schema"

ExpectedImports == "import { t } from \"elysia\""

C11_ImportsThenOneSchema ==
    pc = "generated" =>
        /\ StartsWithAt(output, 1,
               ExpectedImports \o "\n\nexport const " \o ExpectedSchemaName(parsed.name)
                   \o " = t.Object({")
        /\ EndsWith(output, "});")
        /\ Occurrences(output, "export ") = 1
        /\ Occurrences(output, "import ") = Len(getImports)

\* text was generated for the class UserProfile and for a class whose name
\* starts with several capitals
C11_Witness ==
    /\ pc = "generated"
    /\ parsed.name \in {"UserProfile", "URLConfig"}
    /\ Occurrences(output, generateSchemaName(parsed.name)) = 1

(***************************************************************************)
(* C12: in the generated text every property of the class and of every     *)
(* nested object node stands as one pair name: rendered-type, the pairs of *)
(* one property list in the order of the IR and joined by a comma and a    *)
(* line break; the rendered type is wrapped in t.Optional( ) exactly when  *)
(* the Property has isOptional true, at every nesting depth.               *)
(***************************************************************************)
\* the pair a property should be written as, given the text of its type
ExpectedPair(property) ==
    LET rendered == generateType(property.type).value[1]
    IN  property.name \o ": " \o
            (IF property.isOptional THEN "t.Optional(" \o rendered \o ")" ELSE rendered)

\* the pairs of a property list, each on a line of its own, indented
ExpectedPairs(properties) ==
    JoinTexts([i \in DOMAIN properties |-> "  " \o ExpectedPair(properties[i])], ",\n")

\* the optional properties of a property list, nested ones included
RECURSIVE OptionalCount(_)
RECURSIVE OptionalIn(_)
OptionalIn(ir) ==
    CASE ir.kind = "array" -> OptionalIn(ir.elementType)
      [] ir.kind = "union" ->
            LET RECURSIVE Sum(_)
                Sum(i) == IF i = 0 THEN 0 ELSE OptionalIn(ir.types[i]) + Sum(i - 1)
            IN  Sum(Len(ir.types))
      [] ir.kind = "object" -> OptionalCount(ir.properties)
      [] OTHER -> 0

OptionalCount(properties) ==
    IF properties = <<>> THEN 0
    ELSE (IF Head(properties).isOptional THEN 1 ELSE 0)
            + OptionalIn(Head(properties).type) + OptionalCount(Tail(properties))

C12_PairsInOrderOptionalWrapped ==
    pc = "generated" =>
        /\ output = JoinTexts(getImports, "\n") \o "\n\nexport const "
                        \o generateSchemaName(parsed.name) \o " = t.Object({ \n"
                        \o ExpectedPairs(parsed.properties) \o " });"
        /\ \A node \in ParsedNodes :
               node.kind = "object" =>
                   Occurrences(output,
                       "t.Object({\n" \o ExpectedPairs(node.properties) \o "\n})") >= 1
        /\ Occurrences(output, "t.Optional(") = OptionalCount(parsed.properties)

\* text was generated for a class of two properties, one of them optional,
\* one of them required, one of them an object with an optional member
C12_Witness ==
    /\ pc = "generated"
    /\ Len(parsed.properties) >= 2
    /\ \E i, j \in DOMAIN parsed.properties :
           /\ parsed.properties[i].isOptional
           /\ ~parsed.properties[j].isOptional
           /\ parsed.properties[j].type.kind = "object"
           /\ \E k \in DOMAIN parsed.properties[j].type.properties :
                  parsed.properties[j].type.properties[k].isOptional
    /\ Occurrences(output, "t.Optional(") >= 2
    /\ Occurrences(output, ",\n") >= 1

(***************************************************************************)
(* C13: resolve terminates on every type handle, with an IR tree or a      *)
(* failure of its own, and no call of resolve recurses without bound: no   *)
(* type is resolved within its own resolution, so the calls in progress    *)
(* never outnumber the types, and the call stack is never exhausted.       *)
(***************************************************************************)
\* the types reachable from the types of from in one to n calls
RECURSIVE ReachableIn(_, _)
ReachableIn(from, n) ==
    IF n = 0 THEN {}
    ELSE LET next == UNION {{c[k] : k \in DOMAIN c} :
                                c \in {Callees(typeTable[i]) : i \in from}}
         IN  next \cup ReachableIn(next, n - 1)

\* no type the root call reaches is reachable from itself
AcyclicFromRoot ==
    \A i \in {1} \cup ReachableIn({1}, Len(typeTable)) :
        i \notin ReachableIn({i}, Len(typeTable))

C13_ResolveTerminates ==
    /\ \A i, j \in DOMAIN stack : i # j => stack[i].type # stack[j].type
    /\ Len(stack) <= Len(typeTable)
    /\ returned # RangeError

\* on a type graph without a cycle below the root the same holds
ResolveEndsOnAcyclicGraphs == AcyclicFromRoot => C13_ResolveTerminates

====
